---- MODULE Spec2Model ----
(***************************************************************************)
(* Orbital-mechanics core of the solar-system WASM module                  *)
(* (src/wasm/src/lib.rs): the Kepler solver, the position transform and    *)
(* the planet-state assembler.                                             *)
(*                                                                         *)
(* f64 values are modelled as signed decimal fixed-point numbers with 16   *)
(* fractional digits: a record [neg, mag] whose magnitude is a little-     *)
(* endian sequence of base-10000 limbs without high zero limbs (the value  *)
(* is mag / 10^16).  Every arithmetic operation truncates its exact result *)
(* toward zero at that resolution, as every f64 operation rounds its exact *)
(* result.                                                                 *)
(***************************************************************************)
EXTENDS Integers, Sequences, FiniteSets, Bags, TLC

(***************************************************************************)
(* Natural numbers as limb sequences.  The limbs of a result are computed  *)
(* independently of each other wherever that is possible (carries and      *)
(* borrows by lookahead); only the long division and the square root       *)
(* iterate.                                                                *)
(***************************************************************************)
Limb(a, i) == IF i >= 1 /\ i <= Len(a) THEN a[i] ELSE 0

\* the sequence of the values of a function on 1..n
Tup(f) == SubSeq(f, 1, Len(f))

\* the sum of the values of a function of naturals
Sum(f) == BagCardinality([i \in DOMAIN f |-> f[i] + 1]) - Cardinality(DOMAIN f)

\* a without its high zero limbs: its length is the number of places with a
\* nonzero limb at or above them
NTrim(a) ==
    SubSeq(a, 1, Cardinality({i \in 1..Len(a) : \E j \in i..Len(a) : a[j] # 0}))

\* -1, 0 or 1 as a < b, a = b or a > b (both without high zero limbs)
NCmp(a, b) ==
    IF Len(a) > Len(b) THEN 1
    ELSE IF Len(a) < Len(b) THEN -1
    ELSE IF a = b THEN 0
    ELSE IF \E i \in 1..Len(a) : a[i] > b[i] /\ \A j \in (i + 1)..Len(a) : a[j] = b[j] THEN 1
    ELSE -1

\* one folding of the carries: every limb keeps its low part and receives
\* the high part of the limb below it
Fold(raw) ==
    IF raw = <<>> THEN raw
    ELSE Tup([i \in 1..(Len(raw) + 1) |->
                (Limb(raw, i) % 10000) + (Limb(raw, i - 1) \div 10000)])

\* the limbs of sum u[i] * 10000^(i-1) for u[i] < 20000: a carry of 1 enters
\* limb i when a limb below it overflows and every limb between passes it on
Ripple(u) ==
    IF u = <<>> THEN u
    ELSE NTrim(Tup([i \in 1..(Len(u) + 1) |->
            (Limb(u, i)
             + (IF \E j \in 1..(i - 1) :
                       u[j] >= 10000 /\ \A k \in (j + 1)..(i - 1) : u[k] >= 9999
                THEN 1 ELSE 0)) % 10000]))

\* the limbs of sum raw[i] * 10000^(i-1) for naturals raw[i] < 2^31
NNorm(raw) == Ripple(Fold(Fold(raw)))

NAdd(a, b) ==
    IF b = <<>> THEN a
    ELSE Ripple(Tup([i \in 1..(IF Len(a) > Len(b) THEN Len(a) ELSE Len(b)) |->
                      Limb(a, i) + Limb(b, i)]))

\* the limbs of sum d[i] * 10000^(i-1) >= 0 for -10000 < d[i] < 10000: a
\* borrow of 1 leaves limb i when a limb below it is negative and every limb
\* between passes it on
Borrow(d) ==
    NTrim(Tup([i \in 1..Len(d) |->
        (d[i] - (IF \E j \in 1..(i - 1) : d[j] < 0 /\ \A k \in (j + 1)..(i - 1) : d[k] <= 0
                 THEN 1 ELSE 0)) % 10000]))

\* a - b for a >= b
NSub(a, b) ==
    IF b = <<>> THEN a ELSE Borrow(Tup([i \in 1..Len(a) |-> a[i] - Limb(b, i)]))

\* a * d for a natural d <= 10000
NMulSmall(a, d) ==
    IF a = <<>> \/ d = 0 THEN <<>> ELSE Ripple(Fold(Tup([i \in 1..Len(a) |-> a[i] * d])))

NMul(a, b) ==
    IF a = <<>> \/ b = <<>> THEN <<>>
    ELSE NNorm(Tup([k \in 1..(Len(a) + Len(b) - 1) |->
            Sum([i \in {i \in 1..Len(a) : k + 1 - i >= 1 /\ k + 1 - i <= Len(b)} |->
                    a[i] * b[k + 1 - i]])]))

\* floor(a / d) for a natural 1 <= d <= 10000: limb i of the quotient from
\* the remainder of the limbs above it
NDivSmall(a, d) ==
    IF a = <<>> \/ d = 1 THEN a
    ELSE LET n  == Len(a)
             p1 == 10000 % d
             p2 == (p1 * p1) % d
             p4 == (p2 * p2) % d
             p8 == (p4 * p4) % d
             p16 == (p8 * p8) % d
             \* 10000^m mod d, m < 32
             Pw(m) == ((((((((IF m % 2 = 1 THEN p1 ELSE 1)
                             * (IF (m \div 2) % 2 = 1 THEN p2 ELSE 1)) % d)
                             * (IF (m \div 4) % 2 = 1 THEN p4 ELSE 1)) % d)
                             * (IF (m \div 8) % 2 = 1 THEN p8 ELSE 1)) % d)
                             * (IF (m \div 16) % 2 = 1 THEN p16 ELSE 1)) % d
             \* the number made of the limbs i..n, mod d
             rem(i) == Sum([j \in i..n |-> a[j] * Pw(j - i)]) % d
         IN  NTrim(Tup([i \in 1..n |-> (rem(i + 1) * 10000 + a[i]) \div d]))

NShl(a, k) ==
    IF a = <<>> THEN <<>> ELSE Tup([i \in 1..(Len(a) + k) |-> IF i <= k THEN 0 ELSE a[i - k]])

NShr(a, k) == IF Len(a) <= k THEN <<>> ELSE SubSeq(a, k + 1, Len(a))

Reverse(s) == Tup([i \in 1..Len(s) |-> s[Len(s) + 1 - i]])

\* the estimate of the quotient limb floor(r / b) from the top limbs
QEstimate(r, b) ==
    LET n == Len(b)
        t == Limb(r, n + 1) * 10000 + Limb(r, n)
    IN  IF t \div b[n] > 9999 THEN 9999 ELSE t \div b[n]

\* the quotient limb floor(r / b) for r < 10000 * b, the top limb of b >= 5000:
\* the estimate q0 is at most 2 too large
QFix(r, b, q0) ==
    q0 - Cardinality({d \in 0..1 : d < q0 /\ NCmp(NMulSmall(b, q0 - d), r) > 0})

QDigit(r, b) == QFix(r, b, QEstimate(r, b))

\* the quotient limbs of a / b from limb i down, most significant first;
\* r is the remainder of the limbs above i
RECURSIVE NDivR(_, _, _, _)
RECURSIVE NDivStep(_, _, _, _)
RECURSIVE NDivEmit(_, _, _, _, _)
NDivR(a, b, i, r) ==
    IF i = 0 THEN <<>>
    ELSE IF Len(r) + 1 < Len(b) THEN <<0>> \o NDivR(a, b, i - 1, NTrim(<<a[i]>> \o r))
    ELSE NDivStep(a, b, i, NTrim(<<a[i]>> \o r))

NDivStep(a, b, i, cur) == NDivEmit(a, b, i, cur, QDigit(cur, b))

NDivEmit(a, b, i, cur, q) == <<q>> \o NDivR(a, b, i - 1, NSub(cur, NMulSmall(b, q)))

\* floor(an / bn) for the top limb of bn >= 5000
NDivN(an, bn) ==
    IF Len(an) < Len(bn) THEN <<>>
    ELSE NTrim(Reverse(NDivR(an, bn, Len(an) - Len(bn) + 1,
                             NTrim(SubSeq(an, Len(an) - Len(bn) + 2, Len(an))))))

\* the factor that brings the top limb of b to at least 5000
Scale(b) == 10000 \div (b[Len(b)] + 1)

\* floor(a / b) for b # 0: long division of the scaled numbers
NDiv(a, b) == NDivN(NMulSmall(a, Scale(b)), NMulSmall(b, Scale(b)))

NMod(a, b) == NSub(a, NMul(NDiv(a, b), b))

\* floor(sqrt(v)) for a natural v < 10^8: the hundreds, then the units
ISqrt(v) ==
    LET h == CHOOSE h \in 0..99 :
                 (h * 100) * (h * 100) <= v /\ v < ((h + 1) * 100) * ((h + 1) * 100)
    IN  CHOOSE r \in (h * 100)..(h * 100 + 99) : r * r <= v /\ v < (r + 1) * (r + 1)

\* Newton's iteration for floor(sqrt(n)) from x above the root: the next
\* iterate is y
RECURSIVE NSqrtIter(_, _)
RECURSIVE NSqrtNext(_, _, _)
NSqrtIter(n, x) == NSqrtNext(n, x, NDivSmall(NAdd(x, NDiv(n, x)), 2))

NSqrtNext(n, x, y) == IF NCmp(y, x) >= 0 THEN x ELSE NSqrtIter(n, y)

\* the top one or two limbs of n, so that an even number of limbs is left
SqrtTop(n) ==
    IF Len(n) % 2 = 0 THEN n[Len(n)] * 10000 + n[Len(n) - 1] ELSE n[Len(n)]

\* floor(sqrt(n)), by Newton's iteration from a start above the root
NSqrt(n) ==
    IF n = <<>> THEN <<>>
    ELSE NSqrtIter(n, NShl(Ripple(<<ISqrt(SqrtTop(n)) + 1>>), (Len(n) - 1) \div 2))

(***************************************************************************)
(* Signed fixed-point numbers: the model of f64.                           *)
(***************************************************************************)
\* the magnitude of 1.0; its length fixes the resolution (10^-16)
OneMag == <<0, 0, 0, 0, 1>>

FracLimbs == Len(OneMag) - 1

Mk(neg, mag) == [neg |-> (neg /\ mag # <<>>), mag |-> mag]

Zero == [neg |-> FALSE, mag |-> <<>>]

One == [neg |-> FALSE, mag |-> OneMag]

Pow10 == <<1, 10, 100, 1000, 10000, 100000, 1000000, 10000000, 100000000, 1000000000>>

\* limb j of the fraction f / 10^k, for s = 4 * (FracLimbs - j + 1) - k
DecLimb(f, s) ==
    IF s >= 4 \/ s <= -10 THEN 0
    ELSE IF s >= 0 THEN (f % Pow10[5 - s]) * Pow10[s + 1]
    ELSE (f \div Pow10[1 - s]) % 10000

\* the f64 literal i.f, where f is written with k digits (k <= 16, i < 10^8)
Dec(i, f, k) ==
    Mk(FALSE, NTrim(Tup([j \in 1..(FracLimbs + 2) |->
        IF j <= FracLimbs THEN DecLimb(f, 4 * (FracLimbs - j + 1) - k)
        ELSE IF j = FracLimbs + 1 THEN i % 10000
        ELSE i \div 10000])))

\* the f64 literal n.0 for a natural n < 10^8
FromInt(n) == Dec(n, 0, 0)

Two == [neg |-> FALSE, mag |-> <<0, 0, 0, 0, 2>>]

Neg(a) == Mk(~a.neg, a.mag)

Abs(a) == Mk(FALSE, a.mag)

\* a + b for a and b of opposite signs; swap: |a| < |b|
AddMixed(a, b, swap) ==
    Mk(IF swap THEN b.neg ELSE a.neg,
       NSub(IF swap THEN b.mag ELSE a.mag, IF swap THEN a.mag ELSE b.mag))

Add(a, b) ==
    IF a.neg = b.neg THEN Mk(a.neg, NAdd(a.mag, b.mag))
    ELSE AddMixed(a, b, NCmp(a.mag, b.mag) < 0)

Sub(a, b) == Add(a, Neg(b))

Mul(a, b) ==
    IF a.mag = <<>> \/ b.mag = <<>> THEN Zero
    ELSE Mk(a.neg # b.neg, NShr(NMul(a.mag, b.mag), FracLimbs))

\* the largest magnitude a quotient takes at this resolution (1 / 10^-16)
Huge == <<0, 0, 0, 0, 0, 0, 0, 0, 1>>

Div(a, b) ==
    IF b.mag = <<>> THEN Mk(a.neg, IF a.mag = <<>> THEN <<>> ELSE Huge)
    ELSE IF a.mag = <<>> THEN Zero
    ELSE Mk(a.neg # b.neg, NDiv(NShl(a.mag, FracLimbs), b.mag))

Sqrt(a) == IF a.mag = <<>> THEN Zero ELSE Mk(FALSE, NSqrt(NShl(a.mag, FracLimbs)))

Lt(a, b) ==
    IF a.neg # b.neg THEN a.neg
    ELSE IF a.neg THEN NCmp(a.mag, b.mag) > 0
    ELSE NCmp(a.mag, b.mag) < 0

Le(a, b) == ~Lt(b, a)

(***************************************************************************)
(* std::f64::consts::PI and the f64 elementary functions.                  *)
(***************************************************************************)
PI == [neg |-> FALSE, mag |-> <<7932, 3589, 9265, 1415, 3>>]

HalfPi == [neg |-> FALSE, mag |-> <<8966, 6794, 9632, 5707, 1>>]

\* 2*pi to 32 fractional digits: the argument reduction of sin and cos is
\* carried out beyond the working resolution, as a libm's is
TwoPiHi == <<5900, 7665, 5286, 7692, 5864, 7179, 8530, 2831, 6>>

\* |a| mod 2*pi, in [0, 2*pi)
Reduce2Pi(a) ==
    IF NCmp(a.mag, NShr(TwoPiHi, FracLimbs)) < 0 THEN Abs(a)
    ELSE Mk(FALSE, NShr(NMod(NShl(a.mag, FracLimbs), TwoPiHi), FracLimbs))

\* the angle y of [0, 2*pi) brought into [0, pi)
FoldHalf(y) == IF Le(PI, y) THEN Sub(y, PI) ELSE y

\* the angle y1 of [0, pi) brought into [0, pi/2]
FoldQuarter(y1) == IF Lt(HalfPi, y1) THEN Sub(PI, y1) ELSE y1

\* t with the sign of term k of an alternating series
Signed(t, k) == IF k % 2 = 1 THEN Neg(t) ELSE t

\* the partial sums of x - x^3/3! + x^5/5! - ..., until the sum stops changing
RECURSIVE SinSeries(_, _, _, _)
SinSeries(x2, term, s, k) ==
    LET t  == Mk(FALSE, NDivSmall(Mul(term, x2).mag, (2 * k) * (2 * k + 1)))
        s2 == Add(s, Signed(t, k))
    IN  IF s2 = s THEN s ELSE SinSeries(x2, t, s2, k + 1)

\* the partial sums of 1 - x^2/2! + x^4/4! - ..., until the sum stops changing
RECURSIVE CosSeries(_, _, _, _)
CosSeries(x2, term, s, k) ==
    LET t  == Mk(FALSE, NDivSmall(Mul(term, x2).mag, (2 * k - 1) * (2 * k)))
        s2 == Add(s, Signed(t, k))
    IN  IF s2 = s THEN s ELSE CosSeries(x2, t, s2, k + 1)

\* sin of y2 in [0, pi/2], negated if neg
SinFolded(neg, y2) ==
    IF y2.mag = <<>> THEN Zero ELSE Mk(neg, SinSeries(Mul(y2, y2), y2, y2, 1).mag)

\* sin of y in [0, 2*pi), negated if neg
SinReduced(neg, y) ==
    IF y.mag = <<>> THEN Zero ELSE SinFolded(neg # Le(PI, y), FoldQuarter(FoldHalf(y)))

\* f64::sin
Sin(a) == SinReduced(a.neg, Reduce2Pi(a))

\* the value v negated if neg
Negated(neg, v) == Mk(v.neg # neg, v.mag)

\* cos of y2 in [0, pi/2], negated if neg
CosFolded(neg, y2) ==
    IF y2.mag = <<>> THEN Mk(neg, OneMag)
    ELSE Negated(neg, CosSeries(Mul(y2, y2), One, One, 1))

\* cos of y1 in [0, pi), negated if neg
CosHalf(neg, y1) ==
    IF y1.mag = <<>> THEN Mk(neg, OneMag)
    ELSE CosFolded(neg # Lt(HalfPi, y1), FoldQuarter(y1))

\* cos of y in [0, 2*pi)
CosReduced(y) == IF y.mag = <<>> THEN One ELSE CosHalf(Le(PI, y), FoldHalf(y))

\* f64::cos
Cos(a) == CosReduced(Reduce2Pi(a))

\* f64::tan
Tan(a) == Div(Sin(a), Cos(a))

\* the partial sums of z - z^3/3 + z^5/5 - ..., until the sum stops changing
RECURSIVE AtanSeries(_, _, _, _)
AtanSeries(z2, p, s, k) ==
    LET q  == Mul(p, z2)
        s2 == Add(s, Signed(Mk(FALSE, NDivSmall(q.mag, 2 * k + 1)), k))
    IN  IF s2 = s THEN s ELSE AtanSeries(z2, q, s2, k + 1)

\* atan of |w| <= 1/8, by the series
AtanSmall(w) ==
    IF w.mag = <<>> THEN Zero
    ELSE Mk(w.neg, AtanSeries(Mul(w, w), Abs(w), Abs(w), 1).mag)

\* 1/8, 3/8, 5/8, 7/8: the boundaries between the nearest quarters
Eighths == <<Dec(0, 125, 3), Dec(0, 375, 3), Dec(0, 625, 3), Dec(0, 875, 3)>>

\* 0, 1/4, 1/2, 3/4, 1
Quarters == <<Zero, Dec(0, 25, 2), Dec(0, 5, 1), Dec(0, 75, 2), One>>

\* atan(0), atan(1/4), atan(1/2), atan(3/4), atan(1)
AtanQuarters ==
    << Zero,
       [neg |-> FALSE, mag |-> <<8641, 3126, 7866, 2449>>],
       [neg |-> FALSE, mag |-> <<8061, 9000, 4760, 4636>>],
       [neg |-> FALSE, mag |-> <<2843, 8793, 110, 6435>>],
       [neg |-> FALSE, mag |-> <<4483, 3397, 9816, 7853>>] >>

\* atan of 0 <= z <= 1 near the quarter c: atan(c) + atan((z - c) / (1 + z*c))
AtanNear(z, c, atan_c) ==
    Add(atan_c, AtanSmall(Div(Sub(z, c), Add(One, Mul(z, c)))))

\* the place in Quarters of the quarter nearest to z, 0 <= z <= 1
Nearest(z) == 1 + Cardinality({j \in 1..Len(Eighths) : Le(Eighths[j], z)})

\* atan of 0 <= z <= 1
AtanUnit(z, k) == AtanNear(z, Quarters[k], AtanQuarters[k])

\* the angle v, or its complement if complement
Complement(complement, v) == IF complement THEN Sub(HalfPi, v) ELSE v

\* atan of z > 0, and of its reciprocal z1 when z > 1
AtanRecip(z1) == AtanUnit(z1, Nearest(z1))

AtanPos(z) == Complement(Lt(One, z), AtanRecip(IF Lt(One, z) THEN Div(One, z) ELSE z))

Atan(z) == IF z.mag = <<>> THEN Zero ELSE Mk(z.neg, AtanPos(Abs(z)).mag)

\* atan2 for x # 0 from v = atan(y / x)
Atan2Quadrant(y, x, v) ==
    IF ~x.neg THEN v ELSE IF y.neg THEN Sub(v, PI) ELSE Add(v, PI)

\* f64::atan2, self = y
Atan2(y, x) ==
    IF x.mag = <<>>
    THEN (IF y.mag = <<>> THEN Zero ELSE Mk(y.neg, HalfPi.mag))
    ELSE Atan2Quadrant(y, x, Atan(Div(y, x)))

(***************************************************************************)
(* The static tables.                                                      *)
(***************************************************************************)
OrbitalElements(a, e, i, omega, w, m0, n) ==
    [a |-> a, e |-> e, i |-> i, omega |-> omega, w |-> w, m0 |-> m0, n |-> n]

PLANET_ELEMENTS ==
    << <<"Mercury", OrbitalElements(Dec(0, 387098, 6), Dec(0, 205635, 6), Dec(7, 4, 3),
            Dec(48, 331, 3), Dec(29, 124, 3), Dec(174, 796, 3), Dec(4, 923, 4))>>,
       <<"Venus", OrbitalElements(Dec(0, 723332, 6), Dec(0, 6773, 6), Dec(3, 394, 3),
            Dec(76, 678, 3), Dec(54, 884, 3), Dec(50, 115, 3), Dec(1, 6021, 4))>>,
       <<"Earth", OrbitalElements(Dec(1, 1, 6), Dec(0, 16709, 6), Dec(0, 0, 3),
            Dec(0, 0, 3), Dec(102, 937, 3), Dec(100, 464, 3), Dec(0, 9856, 4))>>,
       <<"Mars", OrbitalElements(Dec(1, 523679, 6), Dec(0, 93941, 6), Dec(1, 849, 3),
            Dec(49, 558, 3), Dec(286, 502, 3), Dec(19, 373, 3), Dec(0, 5240, 4))>>,
       <<"Jupiter", OrbitalElements(Dec(5, 204267, 6), Dec(0, 48775, 6), Dec(1, 303, 3),
            Dec(100, 464, 3), Dec(273, 867, 3), Dec(20, 20, 3), Dec(0, 831, 4))>>,
       <<"Saturn", OrbitalElements(Dec(9, 582017, 6), Dec(0, 55723, 6), Dec(2, 484, 3),
            Dec(113, 665, 3), Dec(339, 392, 3), Dec(317, 20, 3), Dec(0, 334, 4))>>,
       <<"Uranus", OrbitalElements(Dec(19, 229411, 6), Dec(0, 47318, 6), Dec(0, 772, 3),
            Dec(74, 6, 3), Dec(96, 998, 3), Dec(142, 238, 3), Dec(0, 116, 4))>>,
       <<"Neptune", OrbitalElements(Dec(30, 103658, 6), Dec(0, 8678, 6), Dec(1, 767, 3),
            Dec(131, 784, 3), Dec(272, 856, 3), Dec(256, 228, 3), Dec(0, 60, 4))>> >>

\* (name, radius, color, orbit_radius, axial_tilt, day_length, year_length,
\*  temperature, moons, mass, density)
PLANET_DATA ==
    << <<"Mercury", Dec(0, 383, 3), "#8c7853", Dec(0, 387, 3), Dec(0, 34, 3), Dec(1407, 6, 1),
         Dec(87, 97, 2), FromInt(340), 0, Dec(0, 55, 3), Dec(5, 427, 3)>>,
       <<"Venus", Dec(0, 949, 3), "#ffc649", Dec(0, 723, 3), Dec(177, 4, 1), Dec(5832, 5, 1),
         Dec(224, 7, 1), FromInt(737), 0, Dec(0, 815, 3), Dec(5, 243, 3)>>,
       <<"Earth", FromInt(1), "#6b93d6", FromInt(1), Dec(23, 4, 1), FromInt(24),
         Dec(365, 25, 2), FromInt(288), 1, FromInt(1), Dec(5, 514, 3)>>,
       <<"Mars", Dec(0, 532, 3), "#c1440e", Dec(1, 524, 3), Dec(25, 2, 1), Dec(24, 6, 1),
         FromInt(687), FromInt(210), 2, Dec(0, 107, 3), Dec(3, 933, 3)>>,
       <<"Jupiter", Dec(11, 21, 2), "#d8ca9d", Dec(5, 204, 3), Dec(3, 1, 1), Dec(9, 9, 1),
         FromInt(4331), FromInt(165), 79, Dec(317, 8, 1), Dec(1, 326, 3)>>,
       <<"Saturn", Dec(9, 45, 2), "#fad5a5", Dec(9, 582, 3), Dec(26, 7, 1), Dec(10, 7, 1),
         FromInt(10747), FromInt(134), 82, Dec(95, 2, 1), Dec(0, 687, 3)>>,
       <<"Uranus", Dec(4, 1, 2), "#4fd0e4", Dec(19, 229, 3), Dec(97, 8, 1), Dec(17, 2, 1),
         FromInt(30589), FromInt(76), 27, Dec(14, 5, 1), Dec(1, 271, 3)>>,
       <<"Neptune", Dec(3, 88, 2), "#4b70dd", Dec(30, 104, 3), Dec(28, 3, 1), Dec(16, 1, 1),
         FromInt(59800), FromInt(72), 14, Dec(17, 1, 1), Dec(1, 638, 3)>> >>

(***************************************************************************)
(* The numeric routines.                                                   *)
(***************************************************************************)
Vec3(vx, vy, vz) == [x |-> vx, y |-> vy, z |-> vz]

\* Vec3::length
length(v) == Sqrt(Add(Add(Mul(v.x, v.x), Mul(v.y, v.y)), Mul(v.z, v.z)))

\* the divisor 180.0 of deg_to_rad
HalfTurn == FromInt(180)

deg_to_rad(degrees) == Div(Mul(degrees, PI), HalfTurn)

\* the number of passes of solve_kepler's loop (for _ in 0..10)
MaxIterations == 10

\* the early-exit threshold 1e-12 of solve_kepler
Tolerance == Dec(0, 1, 12)

\* the right-hand side of solve_kepler's "let delta_e = ..."
newton_correction(estimate, mean, ecc) ==
    Div(Sub(Sub(estimate, Mul(ecc, Sin(estimate))), mean),
        Sub(One, Mul(ecc, Cos(estimate))))

\* the early-exit test without abs(): a variant the properties must tell
\* from converged
converged_signed(d) == Lt(d, Tolerance)

\* the early-exit test of solve_kepler: delta_e.abs() < 1e-12
converged(d) == Lt(Abs(d), Tolerance)

\* the J2000.0 epoch, 2451545.0
Epoch == FromInt(2451545)

\* the true anomaly of calculate_planet_position
true_anomaly_of(elements, eccentric_anomaly) ==
    Mul(Two,
        Atan2(Mul(Sqrt(Add(One, elements.e)), Tan(Div(eccentric_anomaly, Two))),
              Sqrt(Sub(One, elements.e))))

\* the distance from the Sun without the cosine: a variant the properties
\* must tell from distance_from_sun
distance_without_cos(elements, eccentric_anomaly) ==
    Mul(elements.a, Sub(One, Mul(elements.e, eccentric_anomaly)))

\* the distance from the Sun, r, of calculate_planet_position
distance_from_sun(elements, eccentric_anomaly) ==
    Mul(elements.a, Sub(One, Mul(elements.e, Cos(eccentric_anomaly))))

\* the rotation of the position (x_orb, y_orb) in the orbital plane to
\* ecliptic coordinates, and the scaled Vec3 that calculate_planet_position
\* returns
ecliptic(x_orb, y_orb, cos_omega, sin_omega, cos_w, sin_w, cos_i, sin_i) ==
    LET x == Add(Mul(Sub(Mul(cos_omega, cos_w), Mul(Mul(sin_omega, sin_w), cos_i)), x_orb),
                 Mul(Sub(Mul(Neg(cos_omega), sin_w), Mul(Mul(sin_omega, cos_w), cos_i)), y_orb))
        y == Add(Mul(Add(Mul(sin_omega, cos_w), Mul(Mul(cos_omega, sin_w), cos_i)), x_orb),
                 Mul(Add(Mul(Neg(sin_omega), sin_w), Mul(Mul(cos_omega, cos_w), cos_i)), y_orb))
        z == Add(Mul(Mul(sin_w, sin_i), x_orb), Mul(Mul(cos_w, sin_i), y_orb))
        scale == Two
    IN  Vec3(Mul(x, scale), Mul(z, scale), Mul(y, scale))

\* the position at the distance r and the true anomaly: the position in the
\* orbital plane and the sines and cosines of the three angles
position_at(elements, r, true_anomaly) ==
    ecliptic(Mul(r, Cos(true_anomaly)), Mul(r, Sin(true_anomaly)),
             Cos(deg_to_rad(elements.omega)), Sin(deg_to_rad(elements.omega)),
             Cos(deg_to_rad(elements.w)), Sin(deg_to_rad(elements.w)),
             Cos(deg_to_rad(elements.i)), Sin(deg_to_rad(elements.i)))

\* calculate_planet_position from the distance on
scaled_position(elements, eccentric_anomaly, true_anomaly) ==
    position_at(elements, distance_from_sun(elements, eccentric_anomaly), true_anomaly)

\* the dividend 365.25 of orbit_speed
DaysPerYear == Dec(365, 25, 2)

\* the quotient the other way round: a variant the properties must tell
\* from orbit_speed
orbit_speed_inverted(year_length) == Div(year_length, DaysPerYear)

\* orbit_speed: 365.25 / year_length
orbit_speed(year_length) == Div(DaysPerYear, year_length)

\* the PlanetData record built from the name, the position and PLANET_DATA[i]
PlanetData(name, position, row) ==
    [name |-> name, position |-> position, radius |-> row[2], color |-> row[3],
     orbit_radius |-> row[4], orbit_speed |-> orbit_speed(row[7]), axial_tilt |-> row[5],
     day_length |-> row[6], year_length |-> row[7], temperature |-> row[8],
     moons |-> row[9], mass |-> row[10], density |-> row[11]]

\* the place in PLANET_DATA of the row after the one at the 0-based index i:
\* a variant the properties must tell from data_index
data_index_next(i) == i + 2

\* the place in PLANET_DATA (a sequence from 1) of the 0-based index i
data_index(i) == i + 1

\* the loop over PLANET_ELEMENTS ended one entry early: a variant the
\* properties must tell from has_next
has_next_short(i) == i + 1 < Len(PLANET_ELEMENTS)

\* the iterator over PLANET_ELEMENTS has an entry at the 0-based index i
has_next(i) == i < Len(PLANET_ELEMENTS)

(***************************************************************************)
(* The state: a host calling planet_positions, one call at a time; the     *)
(* call is at pc, with the locals of planet_positions,                     *)
(* calculate_planet_position and solve_kepler.                             *)
(***************************************************************************)
VARIABLES
    pc,             \* "idle", "anomaly", "kepler", "solved", "place", "return", "panic"
    hook,           \* set_panic_hook has run
    julian_date,    \* the argument of the call
    i,              \* the index of enumerate()
    planets,        \* the Vec under construction
    mean_anomaly,
    eccentricity,   \* the second argument of solve_kepler
    e,              \* solve_kepler's estimate
    iter,           \* the passes of solve_kepler's loop made so far
    delta_e,        \* the correction of the last pass
    true_anomaly,
    calls           \* the calls returned so far: their argument and their result

vars ==
    <<pc, hook, julian_date, i, planets, mean_anomaly, eccentricity, e, iter, delta_e,
      true_anomaly, calls>>

\* the number of calls the host makes
MaxCalls == 2

\* the Julian dates the host passes: 0.0, one Uranus year_length later, and
\* a date after the epoch
JulianDates == {Zero, PLANET_DATA[7][7], Dec(2468840, 333332, 6)}

\* the mean anomalies and the eccentricities solve_kepler is called with
MeanAnomalies ==
    {Zero, Dec(0, 2, 1), Dec(0, 4, 1), One, Two, FromInt(3), FromInt(4), FromInt(5),
     FromInt(6), Dec(6, 28, 2)}

Eccentricities ==
    {Zero, Dec(0, 16709, 6), Dec(0, 205635, 6), Dec(0, 5, 1), Dec(0, 9, 1), Dec(0, 99, 2)}

\* the elapsed days counted from the date of the previous call: a variant
\* the properties must tell from days_since_epoch
days_since_last_call(date) ==
    Sub(date, IF calls = <<>> THEN Epoch ELSE calls[Len(calls)].julian_date)

\* days_since_epoch of calculate_planet_position
days_since_epoch(date) == Sub(date, Epoch)

\* mean_anomaly of calculate_planet_position
mean_anomaly_at(elements, date) ==
    deg_to_rad(Add(elements.m0, Mul(elements.n, days_since_epoch(date))))

\* the elements el with the semi-major axis and the eccentricity exchanged
swapped(el) == [el EXCEPT !.a = el.e, !.e = el.a]

\* the table entry read with its semi-major axis and eccentricity
\* exchanged: a variant the properties must tell from elements_at
elements_swapped(k) == swapped(PLANET_ELEMENTS[k + 1][2])

\* the elements of the entry of PLANET_ELEMENTS at the 0-based index k
elements_at(k) == PLANET_ELEMENTS[k + 1][2]

name_at(k) == PLANET_ELEMENTS[k + 1][1]

Init ==
    /\ pc = "idle"
    /\ hook = FALSE
    /\ julian_date = Zero
    /\ i = 0
    /\ planets = <<>>
    /\ mean_anomaly = Zero
    /\ eccentricity = Zero
    /\ e = Zero
    /\ iter = 0
    /\ delta_e = Zero
    /\ true_anomaly = Zero
    /\ calls = <<>>

\* planet_positions is entered: set_panic_hook(), Vec::new(), the iterator
planet_positions(t) ==
    /\ pc = "idle"
    /\ Len(calls) < MaxCalls
    /\ hook' = TRUE
    /\ julian_date' = t
    /\ planets' = <<>>
    /\ i' = 0
    /\ pc' = IF has_next(0) THEN "anomaly" ELSE "return"
    /\ UNCHANGED <<mean_anomaly, eccentricity, e, iter, delta_e, true_anomaly, calls>>

\* calculate_planet_position up to the call of solve_kepler, and
\* solve_kepler's "let mut e = mean_anomaly"
calculate_planet_position ==
    /\ pc = "anomaly"
    /\ mean_anomaly' = mean_anomaly_at(elements_at(i), julian_date)
    /\ eccentricity' = elements_at(i).e
    /\ e' = mean_anomaly'
    /\ iter' = 0
    /\ delta_e' = Zero
    /\ pc' = "kepler"
    /\ UNCHANGED <<hook, julian_date, i, planets, true_anomaly, calls>>

\* one pass of the loop of solve_kepler; after the pass that breaks, or the
\* last pass, solve_kepler returns e
solve_kepler ==
    /\ pc = "kepler"
    /\ iter < MaxIterations
    /\ delta_e' = newton_correction(e, mean_anomaly, eccentricity)
    /\ e' = Sub(e, delta_e')
    /\ iter' = iter + 1
    /\ pc' = IF converged(delta_e') THEN "solved"
             ELSE IF iter + 1 < MaxIterations THEN "kepler" ELSE "solved"
    /\ UNCHANGED <<hook, julian_date, i, planets, mean_anomaly, eccentricity, true_anomaly,
                   calls>>

\* calculate_planet_position: the true anomaly
true_anomaly_step ==
    /\ pc = "solved"
    /\ true_anomaly' = true_anomaly_of(elements_at(i), e)
    /\ pc' = "place"
    /\ UNCHANGED <<hook, julian_date, i, planets, mean_anomaly, eccentricity, e, iter,
                   delta_e, calls>>

\* the rest of calculate_planet_position, and the rest of the loop body of
\* planet_positions: PLANET_DATA[i] (which panics out of bounds), the
\* record, the push
push_planet ==
    /\ pc = "place"
    /\ IF data_index(i) \in DOMAIN PLANET_DATA
       THEN /\ planets' = Append(planets,
                              PlanetData(name_at(i),
                                         scaled_position(elements_at(i), e, true_anomaly),
                                         PLANET_DATA[data_index(i)]))
            /\ i' = i + 1
            /\ pc' = IF has_next(i + 1) THEN "anomaly" ELSE "return"
       ELSE /\ pc' = "panic"
            /\ UNCHANGED <<planets, i>>
    /\ UNCHANGED <<hook, julian_date, mean_anomaly, eccentricity, e, iter, delta_e,
                   true_anomaly, calls>>

\* planet_positions returns planets
return_planets ==
    /\ pc = "return"
    /\ calls' = Append(calls, [julian_date |-> julian_date, planets |-> planets])
    /\ pc' = "idle"
    /\ planets' = <<>>
    /\ i' = 0
    /\ mean_anomaly' = Zero
    /\ eccentricity' = Zero
    /\ e' = Zero
    /\ iter' = 0
    /\ delta_e' = Zero
    /\ true_anomaly' = Zero
    /\ UNCHANGED <<hook, julian_date>>

\* the steps of a call in progress
Step ==
    \/ calculate_planet_position
    \/ solve_kepler
    \/ true_anomaly_step
    \/ push_planet
    \/ return_planets

Next ==
    \/ \E t \in JulianDates : planet_positions(t)
    \/ Step

Spec == Init /\ [][Next]_vars

\* solve_kepler called on its own, with any mean anomaly in [0, 2*pi) and
\* any eccentricity in [0, 0.99]
InitKepler ==
    /\ pc = "kepler"
    /\ hook = FALSE
    /\ julian_date = Zero
    /\ i = 0
    /\ planets = <<>>
    /\ mean_anomaly \in MeanAnomalies
    /\ eccentricity \in Eccentricities
    /\ e = mean_anomaly
    /\ iter = 0
    /\ delta_e = Zero
    /\ true_anomaly = Zero
    /\ calls = <<>>

SpecKepler == InitKepler /\ [][solve_kepler]_vars

(***************************************************************************)
(* The properties.                                                         *)
(***************************************************************************)
\* the heliocentric distance of a returned record: the magnitude of its
\* position divided by the scale factor 2.0
distance_of(planet) == Div(length(planet.position), Two)

\* the record carries the name of an entry of the table elements and the
\* properties of the row of the table data of that name
joined(planet, elements, data) ==
    \E r \in DOMAIN elements :
        /\ planet.name = elements[r][1]
        /\ r \in DOMAIN data
        /\ planet.name = data[r][1]
        /\ <<planet.radius, planet.color, planet.orbit_radius, planet.axial_tilt,
             planet.day_length, planet.year_length, planet.temperature, planet.moons,
             planet.mass, planet.density>>
           = SubSeq(data[r], 2, 11)

\* every sequence of records of results has 8 records, with the names in
\* names, which are those of the table elements, in this order
in_table_order(results, names, elements) ==
    \A c \in DOMAIN results :
        /\ Len(results[c].planets) = 8
        /\ \A k \in DOMAIN results[c].planets :
              /\ results[c].planets[k].name = names[k]
              /\ results[c].planets[k].name = elements[k][1]

\* C1: every call of planet_positions returns exactly 8 records whose names,
\* in output order, are Mercury, Venus, Earth, Mars, Jupiter, Saturn, Uranus,
\* Neptune: record k carries the name of entry k of PLANET_ELEMENTS.
C1_EightRecordsInTableOrder ==
    in_table_order(calls,
                   <<"Mercury", "Venus", "Earth", "Mars", "Jupiter", "Saturn", "Uranus",
                     "Neptune">>,
                   PLANET_ELEMENTS)

\* two calls with different arguments have returned
C1_TwoDatesReturned ==
    /\ Len(calls) = 2
    /\ calls[1].julian_date # calls[2].julian_date
    /\ Len(calls[2].planets) = 8

\* the tables elements and data have 8 entries each, entry k of the one
\* names the planet of entry k of the other, and every record of records is
\* joined from the entry and the row of one planet
aligned(records, elements, data) ==
    /\ Len(elements) = 8
    /\ Len(data) = 8
    /\ \A k \in 1..8 : elements[k][1] = data[k][1]
    /\ \A k \in DOMAIN records : joined(records[k], elements, data)

\* C2: PLANET_ELEMENTS and PLANET_DATA both have 8 entries, entry k of the
\* one names the same planet as entry k of the other, and every record built
\* joins the name of an entry with the properties of the row of that name.
C2_TablesAligned == aligned(planets, PLANET_ELEMENTS, PLANET_DATA)

\* all the records of a call are built
C2_AllJoined == pc = "return" /\ Len(planets) = 8 /\ planets[8].name = "Neptune"

\* C3: two calls of planet_positions with the same argument return the same
\* sequence, whatever was called between them, and between two calls nothing
\* of a call is left for the next one to read.
C3_SameDateSameOutput ==
    /\ \A c, d \in DOMAIN calls :
          calls[c].julian_date = calls[d].julian_date => calls[c].planets = calls[d].planets
    /\ pc = "idle" =>
          <<i, planets, mean_anomaly, eccentricity, e, iter, delta_e, true_anomaly>>
          = <<0, <<>>, Zero, Zero, Zero, 0, Zero, Zero>>

\* two calls with the same argument have returned
C3_SameDateTwice ==
    \E c, d \in DOMAIN calls :
        c < d /\ calls[c].julian_date = calls[d].julian_date /\ calls[d].planets # <<>>

\* C4: for every Julian date, the dates before the epoch such as 0.0
\* included, planet_positions does not panic, every PLANET_DATA[i] it reads
\* is within bounds, a call in progress is at a step it can take (a pass of
\* solve_kepler's loop only while passes are left), and every call returns
\* all 8 records.
C4_NeverFails ==
    /\ pc # "panic"
    /\ pc = "place" => i < Len(PLANET_DATA)
    /\ pc \in {"idle", "anomaly", "kepler", "solved", "place", "return"}
    /\ pc = "kepler" => iter < 10
    /\ \A c \in DOMAIN calls : Len(calls[c].planets) = 8

\* the call with the date 0.0, before the epoch, has returned
C4_PreEpochReturned ==
    \E c \in DOMAIN calls :
        /\ calls[c].julian_date = Zero
        /\ Lt(days_since_epoch(calls[c].julian_date), Zero)
        /\ Len(calls[c].planets) = 8

\* C5: for every mean anomaly in [0, 2*pi) and every eccentricity in
\* [0, 0.99], the value E that solve_kepler returns satisfies
\* |E - e*sin(E) - M| < 1e-9.
C5_ResidualBelow1e9 ==
    pc = "solved" =>
        Lt(Abs(Sub(Sub(e, Mul(eccentricity, Sin(e))), mean_anomaly)), Dec(0, 1, 9))

\* a record has just been pushed
pushed == pc \in {"anomaly", "return"} /\ planets # <<>>

\* distance lies in [a*(1-e), a*(1+e)], widened by the relative error rel
between_apsides(elements, distance, rel) ==
    /\ Le(Mul(Mul(elements.a, Sub(One, elements.e)), Sub(One, rel)), distance)
    /\ Le(distance, Mul(Mul(elements.a, Add(One, elements.e)), Add(One, rel)))

\* C6 as stated: the magnitude of every returned position, divided by the
\* scale factor 2.0, lies in the closed interval [a*(1-e), a*(1+e)].
C6_DistanceInClosedInterval ==
    pushed =>
        between_apsides(PLANET_ELEMENTS[Len(planets)][2], distance_of(planets[Len(planets)]),
                        Zero)

\* C6, amended: the magnitude of every returned position, divided by the
\* scale factor 2.0, lies in [a*(1-e), a*(1+e)] up to a relative error of
\* 1e-12.
C6_DistanceWithinRounding ==
    pushed =>
        between_apsides(PLANET_ELEMENTS[Len(planets)][2], distance_of(planets[Len(planets)]),
                        Dec(0, 1, 12))

\* distance is below a*(1-e)
below_perihelion(elements, distance) == Lt(distance, Mul(elements.a, Sub(One, elements.e)))

\* a record is returned whose distance is below a*(1-e), by rounding only
C6_RoundedBelowPerihelion ==
    /\ pushed
    /\ below_perihelion(PLANET_ELEMENTS[Len(planets)][2], distance_of(planets[Len(planets)]))

\* the planet of the row data_k, with the elements elements_k, is at the
\* place of the result before in the result after, with a tolerance of 1
\* degree in n * year_length and of 0.1 in each coordinate
back_after_year(before, after, elements_k, data_k) ==
    /\ Lt(Abs(Sub(Mul(elements_k.n, data_k[7]), FromInt(360))), One)
    /\ \A axis \in {"x", "y", "z"} :
          Lt(Abs(Sub(after.position[axis], before.position[axis])), Dec(0, 1, 1))

\* the calls of results whose arguments differ by the year_length of a row
\* of data find the planet of the row back at its place
periodic(results, elements, data) ==
    \A c, d \in DOMAIN results : \A k \in DOMAIN data :
        results[d].julian_date = Add(results[c].julian_date, data[k][7]) =>
            back_after_year(results[c].planets[k], results[d].planets[k], elements[k][2],
                            data[k])

\* C7: when the argument of one call is that of another plus the
\* year_length of a planet, the mean anomaly of the planet has advanced by
\* n * year_length = 360 degrees, and the planet is back at its position,
\* here even with a tolerance of 1 degree and of 0.1 in each coordinate.
C7_BackAfterYearLength == periodic(calls, PLANET_ELEMENTS, PLANET_DATA)

\* in the records, orbit_speed is 365.25 / year_length, year_length is that
\* of the row of data at the same index, Earth's orbit_speed is 1.0 and
\* Mercury's is mercury to three decimals
speeds(records, data, mercury) ==
    \A k \in DOMAIN records :
        /\ records[k].year_length = data[k][7]
        /\ records[k].orbit_speed = Div(Dec(365, 25, 2), records[k].year_length)
        /\ records[k].name = "Earth" => records[k].orbit_speed = One
        /\ records[k].name = "Mercury" =>
              Le(Abs(Sub(records[k].orbit_speed, mercury)), Dec(0, 5, 4))

\* C8 as stated: orbit_speed is 365.25 / year_length of the same record,
\* year_length is that of the row of PLANET_DATA at the same index, Earth's
\* orbit_speed is exactly 1.0 and Mercury's is 4.153 to three decimals.
C8_MercuryAbout4153 == speeds(planets, PLANET_DATA, Dec(4, 153, 3))

\* C8, amended: orbit_speed is 365.25 / year_length of the same record,
\* year_length is that of the row of PLANET_DATA at the same index, Earth's
\* orbit_speed is exactly 1.0 and Mercury's is 4.152 to three decimals.
C8_MercuryAbout4152 == speeds(planets, PLANET_DATA, Dec(4, 152, 3))

\* the records of Mercury and of Earth are built, at a date other than 0.0
C8_MercuryAndEarthBuilt ==
    /\ Len(planets) >= 3
    /\ julian_date # Zero
    /\ planets[1].name = "Mercury"
    /\ planets[3].name = "Earth"
    /\ planets[3].orbit_speed = One

\* C9: solve_kepler starts from E = M and makes at most 10 updates, each of
\* which subtracts its correction from the estimate; it returns right after
\* the first update whose correction is below 1e-12 in magnitude, and after
\* the 10th update otherwise.
C9_StopsAtFirstSmallCorrection ==
    /\ [](/\ iter <= 10
          /\ pc \in {"kepler", "solved"}
          /\ iter = 0 => pc = "kepler" /\ e = mean_anomaly
          /\ pc = "solved" => iter >= 1 /\ (Lt(Abs(delta_e), Dec(0, 1, 12)) \/ iter = 10)
          /\ pc = "kepler" => iter < 10 /\ (iter >= 1 => ~Lt(Abs(delta_e), Dec(0, 1, 12))))
    /\ [][iter' = iter + 1 /\ e' = Sub(e, delta_e')]_vars

\* solve_kepler returns after the 10th update, with no correction below 1e-12
C9_CapReached ==
    pc = "solved" /\ iter = 10 /\ ~Lt(Abs(delta_e), Dec(0, 1, 12))

\* every eccentricity of the table elements is below bound
all_below(elements, bound) == \A k \in DOMAIN elements : Lt(elements[k][2].e, bound)

\* C10 as stated: every eccentricity solve_kepler is called with, that of
\* every entry of PLANET_ELEMENTS, is below 0.1.
C10_AllBelowTenth ==
    pc = "kepler" => Lt(eccentricity, Dec(0, 1, 1)) /\ all_below(PLANET_ELEMENTS, Dec(0, 1, 1))

\* every eccentricity of the table elements is in [0, 1), Mercury's is below
\* mercury and the others are below bound
all_below_but_mercury(elements, mercury, bound) ==
    \A k \in DOMAIN elements :
        /\ Le(Zero, elements[k][2].e)
        /\ Lt(elements[k][2].e, One)
        /\ Lt(elements[k][2].e, IF elements[k][1] = "Mercury" THEN mercury ELSE bound)

\* C10, amended: every eccentricity solve_kepler is called with, that of
\* every entry of PLANET_ELEMENTS, satisfies 0 <= e < 1; Mercury's is below
\* 0.21 and the other seven are below 0.1.
C10_BelowTenthButMercury ==
    /\ all_below_but_mercury(PLANET_ELEMENTS, Dec(0, 21, 2), Dec(0, 1, 1))
    /\ pc = "kepler" =>
          /\ Le(Zero, eccentricity)
          /\ Lt(eccentricity, IF i = 0 THEN Dec(0, 21, 2) ELSE Dec(0, 1, 1))

\* solve_kepler is called with Mercury's eccentricity, which is not below 0.1
C10_MercuryCalled ==
    pc = "kepler" /\ i = 0 /\ iter >= 1 /\ ~Lt(eccentricity, Dec(0, 1, 1))

====
